---- MODULE Spec2Model ----
(***************************************************************************)
(* ConvI conversation normalizer (app/conversation_normalizer/__init__.py) *)
(* as a state machine.  Python strings are TLA+ strings, handled character *)
(* by character with Len, SubSeq and \o.  A Python Optional value is a     *)
(* sequence: <<>> is None and <<v>> is the value v.  Every call runs in a  *)
(* frame (its locals); the module-level _SPEAKER_ROLE_MAP is a variable of *)
(* its own.                                                                *)
(***************************************************************************)
EXTENDS Integers, Sequences, FiniteSets, TLC

VARIABLES SPEAKER_ROLE_MAP, frames

vars == <<SPEAKER_ROLE_MAP, frames>>

\* ------------------------------------------------------------ bounds
MaxSegs == 3
MaxLines == 3
MaxTurns == 2
MaxConcLen == 2

\* ------------------------------------------------------------ str methods
None == <<>>

Some(v) == <<v>>

UPPERCASE == "ABCDEFGHIJKLMNOPQRSTUVWXYZ"

LOWERCASE == "abcdefghijklmnopqrstuvwxyz"

DIGITS == "0123456789"

Ch(s, i) == SubSeq(s, i, i)

IndexIn(c, s) ==
  IF \E k \in 1..Len(s) : Ch(s, k) = c
  THEN CHOOSE k \in 1..Len(s) : Ch(s, k) = c
  ELSE 0

ToUpper == [c \in {Ch(LOWERCASE, k) : k \in 1..Len(LOWERCASE)} |->
              Ch(UPPERCASE, IndexIn(c, LOWERCASE))]

ToLower == [c \in {Ch(UPPERCASE, k) : k \in 1..Len(UPPERCASE)} |->
              Ch(LOWERCASE, IndexIn(c, UPPERCASE))]

UpperCh(c) == IF c \in DOMAIN ToUpper THEN ToUpper[c] ELSE c

LowerCh(c) == IF c \in DOMAIN ToLower THEN ToLower[c] ELSE c

RECURSIVE upper(_)
upper(s) == IF s = "" THEN "" ELSE UpperCh(Head(s)) \o upper(Tail(s))

RECURSIVE lower(_)
lower(s) == IF s = "" THEN "" ELSE LowerCh(Head(s)) \o lower(Tail(s))

capitalize(s) == IF s = "" THEN "" ELSE UpperCh(Head(s)) \o lower(Tail(s))

IsSpace(c) == c \in {" ", "\t", "\n", "\r"}

DigitChars == {Ch(DIGITS, k) : k \in 1..Len(DIGITS)}

IsDigit(c) == c \in DigitChars

RECURSIVE lstrip(_)
lstrip(s) == IF s # "" /\ IsSpace(Head(s)) THEN lstrip(Tail(s)) ELSE s

RECURSIVE rstrip(_)
rstrip(s) ==
  IF s # "" /\ IsSpace(Ch(s, Len(s)))
  THEN rstrip(SubSeq(s, 1, Len(s) - 1))
  ELSE s

strip(s) == rstrip(lstrip(s))

\* str.splitlines: "\n", "\r" and "\r\n" each end a line; the text after the
\* last line break is a line only when it is not empty.
RECURSIVE SplitFrom(_, _)
SplitFrom(s, cur) ==
  IF s = "" THEN (IF cur = "" THEN <<>> ELSE <<cur>>)
  ELSE IF Head(s) = "\r" /\ Len(s) >= 2 /\ Ch(s, 2) = "\n"
       THEN <<cur>> \o SplitFrom(SubSeq(s, 3, Len(s)), "")
  ELSE IF Head(s) \in {"\n", "\r"}
       THEN <<cur>> \o SplitFrom(Tail(s), "")
  ELSE SplitFrom(Tail(s), cur \o Head(s))

splitlines(s) == SplitFrom(s, "")

\* sep.join(items)
RECURSIVE join(_, _)
join(sep, items) ==
  IF items = <<>> THEN ""
  ELSE IF Len(items) = 1 THEN items[1]
  ELSE items[1] \o sep \o join(sep, Tail(items))

\* ------------------------------------------------------------ Role, records
Role_agent == "agent"

Role_customer == "customer"

Role_unknown == "unknown"

ConversationTurn(spk, role, text, text_en, lang, emo, t0, t1) ==
  [speaker_id |-> spk, role |-> role, original_text |-> text,
   normalized_text_en |-> text_en, language |-> lang, emotion |-> emo,
   start_time |-> t0, end_time |-> t1]

SpeechSegment(spk, text, lang, emo, t0, t1) ==
  [speaker_id |-> spk, original_text |-> text, language |-> lang,
   emotion |-> emo, start_time |-> t0, end_time |-> t1]

EmptyDict == [k \in {} |-> Role_unknown]

\* ------------------------------------------------------------ role assignment
\* Faulty variant of RoleOfIndex: a two-party table, any later speaker left unknown.
RoleOfIndexTwoParty(i) ==
  IF i = 0 THEN Role_agent ELSE IF i = 1 THEN Role_customer ELSE Role_unknown

\* line 46: Role.agent if i == 0 else Role.customer (i from enumerate, 0-based)
RoleOfIndex(i) == IF i = 0 THEN Role_agent ELSE Role_customer

\* lines 41-42: one iteration of the first loop
SeeSpeaker(speakers_seen, seg) ==
  IF \E k \in 1..Len(speakers_seen) : speakers_seen[k] = seg.speaker_id
  THEN speakers_seen
  ELSE Append(speakers_seen, seg.speaker_id)

\* Faulty variant of BuildRoleMap: the docstring's reading, the agent chosen by label.
BuildRoleMapByLabel(speakers_seen) ==
  [spk \in {speakers_seen[k] : k \in 1..Len(speakers_seen)} |->
     IF spk = "SPEAKER_00" THEN Role_agent ELSE Role_customer]

\* lines 44-47: the dict written in enumerate order (a later write to the same
\* key replaces the earlier one)
LastIndexOf(spk, speakers_seen) ==
  CHOOSE k \in 1..Len(speakers_seen) :
    /\ speakers_seen[k] = spk
    /\ \A j \in (k + 1)..Len(speakers_seen) : speakers_seen[j] # spk

BuildRoleMap(speakers_seen) ==
  [spk \in {speakers_seen[k] : k \in 1..Len(speakers_seen)} |->
     RoleOfIndex(LastIndexOf(spk, speakers_seen) - 1)]

RECURSIVE SpeakersSeen(_, _)
SpeakersSeen(segments, speakers_seen) ==
  IF segments = <<>> THEN speakers_seen
  ELSE SpeakersSeen(Tail(segments), SeeSpeaker(speakers_seen, Head(segments)))

assign_roles_from_speakers(segments) ==
  BuildRoleMap(SpeakersSeen(segments, <<>>))

\* ------------------------------------------------------------ audio path
\* line 76: role_map.get(seg.speaker_id, Role.unknown)
RoleMapGet(role_map, spk) ==
  IF spk \in DOMAIN role_map THEN role_map[spk] ELSE Role_unknown

\* Faulty variant of SpeechTurn: non-English text is replaced by a translation marker.
SpeechTurnTranslated(role_map, seg) ==
  LET role == IF seg.speaker_id \in DOMAIN role_map
              THEN role_map[seg.speaker_id] ELSE Role_unknown
      normalized_en == IF seg.language = "en" THEN seg.original_text
                       ELSE "[" \o seg.language \o "] " \o seg.original_text
  IN ConversationTurn(seg.speaker_id, role, seg.original_text, normalized_en,
                      seg.language, seg.emotion, seg.start_time, seg.end_time)

\* lines 76-91: the turn built from one segment
SpeechTurn(role_map, seg) ==
  LET role == RoleMapGet(role_map, seg.speaker_id)
      normalized_en == seg.original_text
  IN ConversationTurn(seg.speaker_id, role, seg.original_text, normalized_en,
                      seg.language, seg.emotion, seg.start_time, seg.end_time)

normalize_from_speech(segments) ==
  IF segments = <<>> THEN <<>>
  ELSE LET role_map == assign_roles_from_speakers(segments)
       IN [k \in 1..Len(segments) |-> SpeechTurn(role_map, segments[k])]

\* ------------------------------------------------------------ text path
\* The alternatives of _AGENT_PREFIX and _CUSTOMER_PREFIX, in pattern order.
AGENT_ALIASES == <<"Agent", "AGENT", "Support", "CSR", "Representative">>

CUSTOMER_ALIASES == <<"Customer", "CUSTOMER", "Client", "User", "Caller">>

\* \s* from index p: the index of the first character that is not a space
RECURSIVE SkipSpace(_, _)
SkipSpace(s, p) ==
  IF p <= Len(s) /\ IsSpace(Ch(s, p)) THEN SkipSpace(s, p + 1) ELSE p

\* \d* from index p
RECURSIVE SkipDigits(_, _)
SkipDigits(s, p) ==
  IF p <= Len(s) /\ IsDigit(Ch(s, p)) THEN SkipDigits(s, p + 1) ELSE p

\* \s*[:\-]\s* from index p: the index after the match, 0 when it fails
SepEnd(s, p) ==
  LET q == SkipSpace(s, p)
  IN IF q <= Len(s) /\ Ch(s, q) \in {":", "-"} THEN SkipSpace(s, q + 1) ELSE 0

\* Faulty variant of LiteralAt: the pattern compiled without re.I.
LiteralAtCased(s, word) ==
  Len(s) >= Len(word) /\ SubSeq(s, 1, Len(word)) = word

\* a literal alternative under re.I at the start of s
LiteralAt(s, word) ==
  Len(s) >= Len(word) /\ lower(SubSeq(s, 1, Len(word))) = lower(word)

\* ^(a1|a2|...)\s*[:\-]\s* with re.I: the index after the match of the first
\* alternative that lets the whole pattern match, 0 when none does
AliasPrefixEnd(s, aliases) ==
  LET ok(k) == LiteralAt(s, aliases[k]) /\ SepEnd(s, Len(aliases[k]) + 1) # 0
  IN IF \E k \in 1..Len(aliases) : ok(k)
     THEN LET k == CHOOSE k \in 1..Len(aliases) :
                     ok(k) /\ \A j \in 1..(k - 1) : ~ok(j)
          IN SepEnd(s, Len(aliases[k]) + 1)
     ELSE 0

AGENT_PREFIX_match(line) == AliasPrefixEnd(line, AGENT_ALIASES)

CUSTOMER_PREFIX_match(line) == AliasPrefixEnd(line, CUSTOMER_ALIASES)

\* (SPEAKER_\d+) with re.I: the index after group 1, 0 when it fails
SpeakerGroupEnd(line) ==
  IF LiteralAt(line, "SPEAKER_")
  THEN LET e == SkipDigits(line, Len("SPEAKER_") + 1)
       IN IF e > Len("SPEAKER_") + 1 THEN e ELSE 0
  ELSE 0

\* ^(SPEAKER_\d+)\s*[:\-]\s* with re.I
SPEAKER_PREFIX_match(line) ==
  LET e == SpeakerGroupEnd(line) IN IF e = 0 THEN 0 ELSE SepEnd(line, e)

\* pattern.sub("", line).strip() for a pattern whose match ends before index e
SubStrip(line, e) == strip(SubSeq(line, e, Len(line)))

\* Faulty variant of NonBlankLines: blank lines are not filtered before indexing.
NonBlankLinesKept(transcript) ==
  LET raw == splitlines(strip(transcript))
  IN [k \in 1..Len(raw) |-> strip(raw[k])]

\* line 131
NonBlankLines(transcript) ==
  LET raw == splitlines(strip(transcript))
      stripped == [k \in 1..Len(raw) |-> strip(raw[k])]
  IN SelectSeq(stripped, LAMBDA l : l # "")

\* line 154-155: the plain alternating branch
FallbackRole(i) == IF i % 2 = 0 THEN Role_agent ELSE Role_customer

\* Faulty variant of DiarizedRole: the role taken from the numeric diarized index.
RECURSIVE AllZeros(_)
AllZeros(ds) == ds = "" \/ (Head(ds) = "0" /\ AllZeros(Tail(ds)))

DiarizedRoleByIndex(speaker_id) ==
  IF AllZeros(SubSeq(speaker_id, Len("SPEAKER_") + 1, Len(speaker_id)))
  THEN Role_agent ELSE Role_customer

\* line 151
DiarizedRole(speaker_id) ==
  IF speaker_id = "SPEAKER_00" THEN Role_agent ELSE Role_customer

\* lines 136-155: role, speaker_id and text of line i (0-based)
ClassifyLine(i, line) ==
  LET a == AGENT_PREFIX_match(line)
      c == CUSTOMER_PREFIX_match(line)
      m == SPEAKER_PREFIX_match(line)
  IN IF a # 0
     THEN [role |-> Role_agent, speaker_id |-> "AGENT",
           text |-> SubStrip(line, a)]
     ELSE IF c # 0
     THEN [role |-> Role_customer, speaker_id |-> "CUSTOMER",
           text |-> SubStrip(line, c)]
     ELSE IF m # 0
     THEN LET speaker_id == upper(SubSeq(line, 1, SpeakerGroupEnd(line) - 1))
          IN [role |-> DiarizedRole(speaker_id), speaker_id |-> speaker_id,
              text |-> SubStrip(line, m)]
     ELSE LET role == FallbackRole(i)
          IN [role |-> role,
              speaker_id |-> IF role = Role_agent THEN "AGENT" ELSE "CUSTOMER",
              text |-> line]

\* Faulty variant of EmitTurn: the empty-text check is missing.
EmitTurnAlways(turns, c, language) ==
  Append(turns, ConversationTurn(c.speaker_id, c.role, c.text, c.text,
                                 language, None, None, None))

\* lines 157-169
EmitTurn(turns, c, language) ==
  IF c.text = "" THEN turns
  ELSE Append(turns, ConversationTurn(c.speaker_id, c.role, c.text, c.text,
                                      language, None, None, None))

\* lines 134-169: one iteration of the loop
TextStep(turns, i, line, language) ==
  EmitTurn(turns, ClassifyLine(i, line), language)

RECURSIVE TextLoop(_, _, _, _)
TextLoop(turns, i, lines, language) ==
  IF i >= Len(lines) THEN turns
  ELSE TextLoop(TextStep(turns, i, lines[i + 1], language), i + 1, lines,
                language)

normalize_from_text(transcript, language) ==
  TextLoop(<<>>, 0, NonBlankLines(transcript), language)

\* ------------------------------------------------------------ renderer
\* line 187: the tag of a truthy emotion
EmotionTag(emotion) ==
  IF emotion # None /\ emotion[1] # "" THEN " [" \o emotion[1] \o "]" ELSE ""

\* Faulty variant of DialogueLine: the original text is rendered.
DialogueLineOriginal(t) ==
  capitalize(t.role) \o EmotionTag(t.emotion) \o ": " \o t.original_text

\* lines 186-188
DialogueLine(t) ==
  capitalize(t.role) \o EmotionTag(t.emotion) \o ": " \o t.normalized_text_en

\* Faulty variant of JoinLines: a blank line between turns.
JoinLinesSpaced(lines) == join("\n\n", lines)

\* line 189
JoinLines(lines) == join("\n", lines)

turns_to_dialogue_string(turns) ==
  JoinLines([k \in 1..Len(turns) |-> DialogueLine(turns[k])])

\* ------------------------------------------------------------ inputs
SeqsUpTo(S, n) == UNION {[1..k -> S] : k \in 0..n}

\* What the speech pipeline hands over: speaker, text, language, emotion.
Utterances ==
  { [speaker_id |-> "SPEAKER_01", original_text |-> "hola", language |-> "es",
     emotion |-> Some("angry")],
    [speaker_id |-> "SPEAKER_00", original_text |-> "hi", language |-> "en",
     emotion |-> None],
    [speaker_id |-> "SPEAKER_01", original_text |-> "ok", language |-> "en",
     emotion |-> Some("")],
    [speaker_id |-> "SPEAKER_02", original_text |-> "haan", language |-> "hi",
     emotion |-> Some("sad")] }

\* Segments are time-ordered: segment k (1-based) spans 2k-2 .. 2k-1.
SegmentsOf(us) ==
  [k \in 1..Len(us) |->
     SpeechSegment(us[k].speaker_id, us[k].original_text, us[k].language,
                   us[k].emotion, Some(2 * k - 2), Some(2 * k - 1))]

SegmentInputs == {SegmentsOf(us) : us \in SeqsUpTo(Utterances, MaxSegs)}

\* A transcript line as its writer composed it: leading blanks, speaker label,
\* separator, what was said, trailing blanks.
Line(lead, label, sep, body, trail) ==
  [lead |-> lead, label |-> label, sep |-> sep, body |-> body, trail |-> trail]

WrittenLines ==
  { Line("", "Agent", ": ", "hi", ""),
    Line("  ", "CSR", " - ", "ok - yes", " \r"),
    Line("", "support", ":", "", ""),
    Line("", "Customer", ": ", "no", ""),
    Line("", "caller", "-", ":x", ""),
    Line("", "SPEAKER_00", ": ", "a", ""),
    Line("", "speaker_01", ":", "b", ""),
    Line("", "Speaker_0", " : ", "c", ""),
    Line("", "", "", "hello", ""),
    Line("", "", "", "Agents: x", ""),
    Line("", "", "", "", " \t") }

LineText(d) == d.lead \o d.label \o d.sep \o d.body \o d.trail

TranscriptOf(src) == join("\n", [k \in 1..Len(src) |-> LineText(src[k])])

TextInputs == SeqsUpTo(WrittenLines, MaxLines)

\* the default language code and an explicit one
Languages == {"en", "hi"}

\* Turn lists a caller of the renderer may hold without having normalized.
LooseTurns ==
  { ConversationTurn("X", Role_unknown, "??", "??", "en", Some(""), None, None),
    ConversationTurn("SPEAKER_00", Role_agent, "hola", "hello", "es",
                     Some("calm"), Some(0), Some(1)),
    ConversationTurn("CUSTOMER", Role_customer, "no", "no", "en", None, None,
                     None) }

TurnInputs == SeqsUpTo(LooseTurns, MaxTurns)

\* The inputs of the interleaved calls.
ConcSegmentInputs ==
  {SegmentsOf(us) : us \in SeqsUpTo({u \in Utterances : u.emotion # Some("")},
                                     MaxConcLen)}

ConcTextInputs ==
  SeqsUpTo({Line("", "Customer", ": ", "no", ""),
            Line("", "", "", "hello", ""),
            Line("", "SPEAKER_00", ": ", "a", "")}, MaxConcLen)

\* ------------------------------------------------------------ frames
Slots == {1, 2}

MainSlot == CHOOSE s \in Slots : \A t \in Slots : s <= t

IdleFrame ==
  [op |-> "idle", pc |-> "idle", src |-> <<>>, segments |-> <<>>,
   transcript |-> "", language |-> "", lines |-> <<>>, i |-> 0,
   speakers_seen |-> <<>>, role_map |-> EmptyDict, turns |-> <<>>,
   dialogue |-> ""]

\* Faulty variant of ModuleRoleMapAfter: the table is kept in the module-level dict.
ModuleRoleMapShared(module_map, role_map) ==
  [spk \in DOMAIN module_map \cup DOMAIN role_map |->
     IF spk \in DOMAIN role_map THEN role_map[spk] ELSE module_map[spk]]

\* lines 32-47: _SPEAKER_ROLE_MAP after a call of _assign_roles_from_speakers
\* that built role_map: no statement names the module-level dict
ModuleRoleMapAfter(module_map, role_map) == module_map

Set(s, f) == frames' = [frames EXCEPT ![s] = f]

\* a direct call of _assign_roles_from_speakers
CallAssign(s, inputs) ==
  /\ frames[s].pc = "idle"
  /\ \E segments \in inputs :
       Set(s, [IdleFrame EXCEPT !.op = "assign", !.pc = "scan",
                               !.segments = segments])
  /\ UNCHANGED SPEAKER_ROLE_MAP

\* lines 68-72
CallSpeech(s, inputs) ==
  /\ frames[s].pc = "idle"
  /\ \E segments \in inputs :
       Set(s, [IdleFrame EXCEPT !.op = "speech",
                               !.pc = IF segments = <<>> THEN "returned"
                                      ELSE "scan",
                               !.segments = segments])
  /\ UNCHANGED SPEAKER_ROLE_MAP

\* lines 40-42
AssignScan(s) ==
  LET f == frames[s]
  IN /\ f.pc = "scan"
     /\ f.i < Len(f.segments)
     /\ Set(s, [f EXCEPT !.speakers_seen = SeeSpeaker(@, f.segments[f.i + 1]),
                         !.i = @ + 1])
     /\ UNCHANGED SPEAKER_ROLE_MAP

\* lines 44-47, and line 73 for normalize_from_speech
AssignBuild(s) ==
  LET f == frames[s]
      role_map == BuildRoleMap(f.speakers_seen)
  IN /\ f.pc = "scan"
     /\ f.i = Len(f.segments)
     /\ Set(s, [f EXCEPT !.role_map = role_map, !.i = 0,
                         !.pc = IF f.op = "assign" THEN "returned" ELSE "loop"])
     /\ SPEAKER_ROLE_MAP' = ModuleRoleMapAfter(SPEAKER_ROLE_MAP, role_map)

\* lines 75-91
SpeechLoop(s) ==
  LET f == frames[s]
  IN /\ f.pc = "loop"
     /\ f.i < Len(f.segments)
     /\ Set(s, [f EXCEPT !.turns = Append(@, SpeechTurn(f.role_map,
                                                        f.segments[f.i + 1])),
                         !.i = @ + 1])
     /\ UNCHANGED SPEAKER_ROLE_MAP

\* lines 93-98
SpeechReturn(s) ==
  LET f == frames[s]
  IN /\ f.pc = "loop"
     /\ f.i = Len(f.segments)
     /\ Set(s, [f EXCEPT !.pc = "returned"])
     /\ UNCHANGED SPEAKER_ROLE_MAP

\* lines 131-132
CallText(s, inputs, languages) ==
  /\ frames[s].pc = "idle"
  /\ \E src \in inputs, language \in languages :
       Set(s, [IdleFrame EXCEPT !.op = "text", !.pc = "lines", !.src = src,
                               !.transcript = TranscriptOf(src),
                               !.language = language,
                               !.lines = NonBlankLines(TranscriptOf(src))])
  /\ UNCHANGED SPEAKER_ROLE_MAP

\* lines 134-169
TextLine(s) ==
  LET f == frames[s]
  IN /\ f.pc = "lines"
     /\ f.i < Len(f.lines)
     /\ Set(s, [f EXCEPT !.turns = TextStep(@, f.i, f.lines[f.i + 1],
                                            f.language),
                         !.i = @ + 1])
     /\ UNCHANGED SPEAKER_ROLE_MAP

\* lines 171-174
TextReturn(s) ==
  LET f == frames[s]
  IN /\ f.pc = "lines"
     /\ f.i = Len(f.lines)
     /\ Set(s, [f EXCEPT !.pc = "returned"])
     /\ UNCHANGED SPEAKER_ROLE_MAP

\* a caller that holds a turn list of its own
LoadTurns(s, inputs) ==
  /\ frames[s].pc = "idle"
  /\ \E turns \in inputs :
       Set(s, [IdleFrame EXCEPT !.op = "turns", !.pc = "returned",
                               !.turns = turns])
  /\ UNCHANGED SPEAKER_ROLE_MAP

\* lines 179-189, on the turns a call returned
Render(s) ==
  LET f == frames[s]
  IN /\ f.pc = "returned"
     /\ f.op # "assign"
     /\ Set(s, [f EXCEPT !.pc = "rendered",
                         !.dialogue = turns_to_dialogue_string(f.turns)])
     /\ UNCHANGED SPEAKER_ROLE_MAP

\* the caller drops the results; the slot is free for the next call
Discard(s) ==
  /\ frames[s].pc \in {"returned", "rendered"}
  /\ Set(s, IdleFrame)
  /\ UNCHANGED SPEAKER_ROLE_MAP

Init ==
  /\ SPEAKER_ROLE_MAP = EmptyDict
  /\ frames = [s \in Slots |-> IdleFrame]

\* One caller, one call at a time.
Next ==
  \/ CallAssign(MainSlot, SegmentInputs)
  \/ CallSpeech(MainSlot, SegmentInputs)
  \/ AssignScan(MainSlot)
  \/ AssignBuild(MainSlot)
  \/ SpeechLoop(MainSlot)
  \/ SpeechReturn(MainSlot)
  \/ CallText(MainSlot, TextInputs, Languages)
  \/ TextLine(MainSlot)
  \/ TextReturn(MainSlot)
  \/ LoadTurns(MainSlot, TurnInputs)
  \/ Render(MainSlot)
  \/ Discard(MainSlot)

Spec == Init /\ [][Next]_vars

\* Calls of several callers, interleaved statement by statement.
NextConc ==
  \E s \in Slots :
    \/ CallSpeech(s, ConcSegmentInputs)
    \/ AssignScan(s)
    \/ AssignBuild(s)
    \/ SpeechLoop(s)
    \/ SpeechReturn(s)
    \/ CallText(s, ConcTextInputs, {"en"})
    \/ TextLine(s)
    \/ TextReturn(s)
    \/ Discard(s)

SpecConc == Init /\ [][NextConc]_vars

\* ------------------------------------------------------------ properties
Done(f) == f.pc \in {"returned", "rendered"}

SpeakerIds(segments) == {segments[k].speaker_id : k \in 1..Len(segments)}

FirstIndex(spk, segments) ==
  CHOOSE k \in 1..Len(segments) :
    /\ segments[k].speaker_id = spk
    /\ \A j \in 1..(k - 1) : segments[j].speaker_id # spk

\* the frame holds a finished role-assignment table
TableBuilt(f) ==
  \/ f.op = "assign" /\ f.pc = "returned"
  \/ f.op = "speech" /\ f.pc = "loop"
  \/ f.op = "speech" /\ Done(f) /\ f.segments # <<>>

C2_SpeechOneToOne ==
  \A s \in Slots :
    LET f == frames[s]
    IN f.op = "speech" /\ Done(f) =>
         /\ Len(f.turns) = Len(f.segments)
         /\ \A k \in 1..Len(f.segments) :
              LET seg == f.segments[k]
                  t == f.turns[k]
              IN /\ t.speaker_id = seg.speaker_id
                 /\ t.original_text = seg.original_text
                 /\ t.normalized_text_en = seg.original_text
                 /\ t.language = seg.language
                 /\ t.emotion = seg.emotion
                 /\ t.start_time = seg.start_time
                 /\ t.end_time = seg.end_time
                 /\ seg.speaker_id \in DOMAIN f.role_map
                 /\ t.role = f.role_map[seg.speaker_id]

C2_Witness ==
  \E s \in Slots :
    LET f == frames[s]
    IN /\ f.op = "speech" /\ f.pc = "returned"
       /\ Len(f.turns) = 3
       /\ f.segments[2].language = "es"
       /\ f.turns[2].normalized_text_en = "hola"
       /\ f.turns[2].emotion = Some("angry")
       /\ f.turns[2].start_time = Some(2)
       /\ f.turns[3].emotion = None

\* How the writer of a transcript line labelled it.
AgentLabelled(d) ==
  lower(d.label) \in {"agent", "support", "csr", "representative"}

CustomerLabelled(d) ==
  lower(d.label) \in {"customer", "client", "user", "caller"}

DiarizedLabelled(d) ==
  /\ Len(d.label) > Len("SPEAKER_")
  /\ upper(SubSeq(d.label, 1, Len("SPEAKER_"))) = "SPEAKER_"
  /\ \A k \in (Len("SPEAKER_") + 1)..Len(d.label) : Ch(d.label, k) \in DigitChars

Unlabelled(d) == d.label = ""

\* the line is not blank
Written(d) == strip(LineText(d)) # ""

\* something is said on the line
Said(d) == strip(d.body) # ""

\* zero-based position of line k among the lines that are not blank
Position(src, k) == Cardinality({j \in 1..(k - 1) : Written(src[j])})

\* one-based index of line k among the lines on which something is said
TurnIndex(src, k) == Cardinality({j \in 1..k : Said(src[j])})

TextDone(f) == f.op = "text" /\ Done(f)

\* C3: a transcript of explicitly labelled lines only, each saying something,
\* gives one turn per line in line order; an agent alias gives role agent and
\* speaker AGENT, a customer alias role customer and speaker CUSTOMER, whatever
\* the line's position; the text is what follows the label and separator.
C3_ExplicitLabels ==
  \A s \in Slots :
    LET f == frames[s]
    IN /\ TextDone(f)
       /\ \A k \in 1..Len(f.src) :
            (AgentLabelled(f.src[k]) \/ CustomerLabelled(f.src[k]))
              /\ Said(f.src[k])
       => /\ Len(f.turns) = Len(f.src)
          /\ \A k \in 1..Len(f.src) :
               LET d == f.src[k]
                   t == f.turns[k]
               IN /\ t.original_text = strip(d.body)
                  /\ AgentLabelled(d) =>
                       t.role = Role_agent /\ t.speaker_id = "AGENT"
                  /\ CustomerLabelled(d) =>
                       t.role = Role_customer /\ t.speaker_id = "CUSTOMER"

C3_Witness ==
  \E s \in Slots :
    LET f == frames[s]
    IN /\ TextDone(f)
       /\ Len(f.src) = 3
       /\ CustomerLabelled(f.src[1]) /\ CustomerLabelled(f.src[2])
       /\ AgentLabelled(f.src[3])
       /\ f.src[1].label = "caller" /\ f.src[3].label = "CSR"
       /\ Len(f.turns) = 3
       /\ f.turns[1].role = Role_customer /\ f.turns[1].original_text = ":x"
       /\ f.turns[2].role = Role_customer
       /\ f.turns[3].role = Role_agent /\ f.turns[3].original_text = "ok - yes"

\* the turn of line k of src, a line on which something is said
TurnOf(f, k) == f.turns[TurnIndex(f.src, k)]

DiarizedDigits(d) == SubSeq(d.label, Len("SPEAKER_") + 1, Len(d.label))

\* C4 as stated: a line labelled SPEAKER_<digits> gets its role from the
\* label's diarized index, index 0 agent and every other index customer, and
\* the uppercased label as speaker.
C4_RoleByDiarizedIndex ==
  \A s \in Slots :
    LET f == frames[s]
    IN TextDone(f) =>
         \A k \in 1..Len(f.src) :
           DiarizedLabelled(f.src[k]) /\ Said(f.src[k]) =>
             /\ TurnIndex(f.src, k) <= Len(f.turns)
             /\ TurnOf(f, k).speaker_id = upper(f.src[k].label)
             /\ TurnOf(f, k).role =
                  IF AllZeros(DiarizedDigits(f.src[k]))
                  THEN Role_agent ELSE Role_customer

\* C4 amended: a line labelled SPEAKER_<digits> gets the uppercased label as
\* speaker, and role agent exactly when that is the literal SPEAKER_00; every
\* other digit string (0, 000, 01, ...) gives customer, wherever the line is.
C4_RoleByLiteralLabel ==
  \A s \in Slots :
    LET f == frames[s]
    IN TextDone(f) =>
         \A k \in 1..Len(f.src) :
           DiarizedLabelled(f.src[k]) /\ Said(f.src[k]) =>
             /\ TurnIndex(f.src, k) <= Len(f.turns)
             /\ TurnOf(f, k).speaker_id = upper(f.src[k].label)
             /\ TurnOf(f, k).role =
                  IF upper(f.src[k].label) = "SPEAKER_00"
                  THEN Role_agent ELSE Role_customer

C4_Witness ==
  \E s \in Slots :
    LET f == frames[s]
    IN /\ TextDone(f)
       /\ Len(f.src) = 3
       /\ f.src[1].label = "speaker_01"
       /\ f.src[2].label = "SPEAKER_00"
       /\ f.src[3].label = "Speaker_0"
       /\ Len(f.turns) = 3
       /\ f.turns[1].role = Role_customer /\ f.turns[1].speaker_id = "SPEAKER_01"
       /\ f.turns[2].role = Role_agent /\ f.turns[2].speaker_id = "SPEAKER_00"
       /\ f.turns[3].role = Role_customer /\ f.turns[3].speaker_id = "SPEAKER_0"

\* C5: an unlabelled line gets its role from its zero-based position among the
\* non-blank lines (labelled lines and lines dropped for empty text count,
\* blank lines do not): even gives agent / AGENT, odd customer / CUSTOMER; so
\* a transcript of unlabelled lines alternates agent, customer, agent, ...
C5_FallbackByLinePosition ==
  \A s \in Slots :
    LET f == frames[s]
    IN TextDone(f) =>
         /\ \A k \in 1..Len(f.src) :
              Unlabelled(f.src[k]) /\ Written(f.src[k]) =>
                /\ TurnIndex(f.src, k) <= Len(f.turns)
                /\ TurnOf(f, k).original_text = strip(f.src[k].body)
                /\ TurnOf(f, k).role =
                     IF Position(f.src, k) % 2 = 0
                     THEN Role_agent ELSE Role_customer
                /\ TurnOf(f, k).speaker_id =
                     IF Position(f.src, k) % 2 = 0 THEN "AGENT" ELSE "CUSTOMER"
         /\ (\A k \in 1..Len(f.src) : Unlabelled(f.src[k])) =>
              /\ Len(f.turns) = Cardinality({k \in 1..Len(f.src) : Written(f.src[k])})
              /\ \A n \in 1..Len(f.turns) :
                   f.turns[n].role =
                     IF n % 2 = 1 THEN Role_agent ELSE Role_customer

C5_Witness ==
  \E s \in Slots :
    LET f == frames[s]
    IN /\ TextDone(f)
       /\ Len(f.src) = 3
       /\ AgentLabelled(f.src[1]) /\ Said(f.src[1])
       /\ AgentLabelled(f.src[2]) /\ ~Said(f.src[2])
       /\ Unlabelled(f.src[3]) /\ f.src[3].body = "hello"
       /\ Len(f.turns) = 2
       /\ f.turns[2].original_text = "hello"
       /\ f.turns[2].role = Role_agent

\* C6: normalize_from_text never returns an empty turn: every turn's original
\* text is non-empty and equals its normalized text, a line with nothing after
\* its label and separator gives no turn, and a transcript of blank lines only
\* (or no line) gives no turns.
C6_NoEmptyTurn ==
  \A s \in Slots :
    LET f == frames[s]
    IN f.op = "text" =>
         /\ \A n \in 1..Len(f.turns) :
              /\ f.turns[n].original_text # ""
              /\ f.turns[n].normalized_text_en = f.turns[n].original_text
         /\ Done(f) =>
              /\ Len(f.turns) = Cardinality({k \in 1..Len(f.src) : Said(f.src[k])})
              /\ (\A k \in 1..Len(f.src) : ~Written(f.src[k])) => f.turns = <<>>

C6_Witness ==
  \E s \in Slots :
    LET f == frames[s]
    IN /\ TextDone(f)
       /\ Len(f.src) = 3
       /\ f.src[1].label = "support" /\ ~Said(f.src[1])
       /\ ~Written(f.src[2])
       /\ f.src[3].label = "Agent"
       /\ Len(f.turns) = 1
       /\ f.turns[1].original_text = "hi"

\* the lines on which something is said, in order
SaidLines(src) == SelectSeq(src, Said)

EndsWith(s, tail) ==
  Len(s) >= Len(tail) /\ SubSeq(s, Len(s) - Len(tail) + 1, Len(s)) = tail

\* C7: the rendered dialogue of a parsed transcript has as many lines as the
\* transcript has lines on which something is said, and rendered line k carries
\* the text of the k-th of them.
C7_RoundTripLines ==
  \A s \in Slots :
    LET f == frames[s]
        out == splitlines(f.dialogue)
        said == SaidLines(f.src)
    IN f.op = "text" /\ f.pc = "rendered" =>
         /\ Len(out) = Len(said)
         /\ \A k \in 1..Len(said) :
              EndsWith(out[k], ": " \o strip(said[k].body))

C7_Witness ==
  \E s \in Slots :
    LET f == frames[s]
    IN /\ f.op = "text" /\ f.pc = "rendered"
       /\ Len(f.src) = 3
       /\ f.src[1].label = "Customer"
       /\ f.src[2].label = "support" /\ ~Said(f.src[2])
       /\ Unlabelled(f.src[3]) /\ f.src[3].body = "hello"
       /\ splitlines(f.dialogue) = <<"Customer: no", "Agent: hello">>

RoleLabel(role) ==
  CASE role = Role_agent -> "Agent"
    [] role = Role_customer -> "Customer"
    [] role = Role_unknown -> "Unknown"

\* the text of the first n lines of the dialogue (an empty-string emotion
\* counts as no emotion)
RECURSIVE Rendered(_, _)
Rendered(turns, n) ==
  IF n = 0 THEN ""
  ELSE LET t == turns[n]
           tag == IF t.emotion \in {None, Some("")} THEN ""
                  ELSE " [" \o t.emotion[1] \o "]"
           line == RoleLabel(t.role) \o tag \o ": " \o t.normalized_text_en
       IN IF n = 1 THEN line ELSE Rendered(turns, n - 1) \o "\n" \o line

\* C8: the dialogue is one line per turn in order, joined by single newlines
\* with none at the end, the empty string for no turns; a line is Agent,
\* Customer or Unknown, then " [emotion]" only for a turn that has an emotion,
\* then ": " and the turn's normalized text.
C8_DialogueFormat ==
  \A s \in Slots :
    LET f == frames[s]
    IN f.pc = "rendered" =>
         /\ f.dialogue = Rendered(f.turns, Len(f.turns))
         /\ f.turns = <<>> => f.dialogue = ""
         /\ f.turns # <<>> => Ch(f.dialogue, Len(f.dialogue)) # "\n"

C8_Witness ==
  \E s \in Slots :
    LET f == frames[s]
    IN /\ f.op = "turns" /\ f.pc = "rendered"
       /\ Len(f.turns) = 2
       /\ f.turns[1].role = Role_unknown
       /\ f.turns[2].emotion = Some("calm")
       /\ f.dialogue = "Unknown: ??\nAgent [calm]: hello"

C10_NeverUnknown ==
  \A s \in Slots :
    LET f == frames[s]
    IN f.op \in {"speech", "text"} =>
         /\ \A n \in 1..Len(f.turns) :
              f.turns[n].role \in {Role_agent, Role_customer}
         /\ f.op = "speech" /\ f.turns # <<>> => f.turns[1].role = Role_agent

C10_Witness ==
  \E s \in Slots :
    LET f == frames[s]
    IN /\ f.op = "speech" /\ f.pc = "returned"
       /\ Cardinality(SpeakerIds(f.segments)) = 3
       /\ Len(f.turns) = 3
       /\ f.turns[1].role = Role_agent
       /\ f.turns[3].role = Role_customer

====
